---- MODULE Spec2Model ----
(***************************************************************************)
(* Resilient task execution layer of the AE automation system:             *)
(* CircuitBreaker, RateLimiter, EnhancedCache (src/ae_optimizations.py),   *)
(* their composition OptimizedOrchestrator.route_task_optimized            *)
(* (src/ae_automation_v2_optimized.py) and the wrapped Orchestrator /      *)
(* BaseAgent (src/ae_automation_v2.py), and the hot-folder handler         *)
(* DebouncedFileHandler (src/ae_hot_folder_monitor.py).                    *)
(*                                                                         *)
(* Time is a discrete clock `now` (time.time()); it starts at 1 because    *)
(* epoch seconds are positive, and 0 stands for Python's None where the    *)
(* code tests a timestamp for truthiness.                                  *)
(*                                                                         *)
(* The specifications share the variables:                                 *)
(*   SpecCB  coroutines calling CircuitBreaker.call(fn) with an arbitrary  *)
(*           awaitable fn, health polls of is_open, the clock;             *)
(*   SpecCBLive the same with a service that recovers for good, under      *)
(*           fairness of the clock, of arriving calls and of fn returning; *)
(*   SpecRL  coroutines calling RateLimiter.acquire, the clock;            *)
(*   Spec    coroutines calling route_task_optimized on one event loop;    *)
(*   SpecSeq one coroutine that awaits each route_task_optimized call      *)
(*           before it makes the next;                                     *)
(*   SpecDeg the same coroutine, with a cache database that may become     *)
(*           unusable and usable again;                                    *)
(*   SpecObs coroutines calling CircuitBreaker.call(fn) and polls of       *)
(*           OptimizedOrchestrator.health_check;                           *)
(*   SpecRetry coroutines calling RetryHandler.execute_with_retry(func)    *)
(*           with an arbitrary awaitable func;                             *)
(*   SpecDeb callers of Debouncer.debounce and the tasks it creates;       *)
(*   SpecBatch callers of BatchProcessor.add_task and the process_batch    *)
(*           tasks it creates;                                             *)
(*   SpecGather the same with a process_single that takes time and may     *)
(*           raise;                                                        *)
(*   SpecHot file-system events delivered to DebouncedFileHandler and the  *)
(*           _process_after_debounce tasks it creates, under fairness of   *)
(*           the clock and of the event loop running its tasks.            *)
(***************************************************************************)
EXTENDS Integers, Sequences, FiniteSets, TLC

\* ------------------------------------------------------------------ bounds
\* Ticks the clock may advance past its initial value.
MaxTime == 3
\* Coroutines running concurrently on the event loop.
NCallers == 2
\* Total CircuitBreaker.call invocations in a run.
MaxCalls == 7
\* recovery_timeout in ticks (the reference system configures 60 s).
recovery_timeout == 2
\* RateLimiter(rate, per): rate tokens per `per` ticks (reference: 60 per 60 s).
Rate == 2
Per == 3
\* Total RateLimiter.acquire invocations in a run.
MaxAcquires == 5
\* Total route_task_optimized invocations in a run of concurrent coroutines.
MaxExecs == 4
\* Total RetryHandler.execute_with_retry invocations in a run.
MaxRetryRuns == 3
\* Kinds of exception func may raise: 1..NErrKinds.
NErrKinds == 2
\* Debouncer.delay in ticks (the reference system configures 0.5 s).
delay == 2
\* route_task_optimized calls in a run with a failing cache database.
MaxDegExecs == 3
\* add_task calls in a run in which process_single may raise.
MaxGatherItems == 2
\* health_check polls in a run.
MaxPolls == 3
\* Total Debouncer.debounce invocations in a run, and keys.
MaxEvents == 4
NKeys == 2
\* Total BatchProcessor.add_task invocations in a run.
MaxItems == 6
\* Total process_batch tasks created in a run.
MaxCollectors == 2
\* Total route_task_optimized invocations in a run of one coroutine that
\* awaits each call before the next.
MaxSeqExecs == 6
\* Task prompts 0..NPrompts; prompt 0 matches no agent's keywords.
NPrompts == 1
\* Texts the external service may answer: 0 (the empty string) .. NTexts.
NTexts == 1
\* EnhancedCache.ttl in ticks (the reference system configures 24 h).
CacheTtl == 2
\* Watched files, and file-system events delivered in a run.
NFiles == 2
MaxFsEvents == 3

\* ------------------------------------------------------- program constants
failure_threshold == 5
\* RetryHandler(max_retries=3, base_delay=1.0); one tick is one second.
max_retries == 3
base_delay == 1
\* BatchProcessor(batch_size=5, batch_timeout=2.0)
batch_size == 5
batch_timeout == 2
\* DebouncedFileHandler.debounce_time = 2.0
debounce_time == 2

VARIABLES
  now,                \* time.time()
  \* CircuitBreaker fields
  state, failure_count, last_failure_time,
  \* coroutines inside CircuitBreaker.call: position, last outcome
  cpc, cout,
  \* observation of fn: invocations started / failed / succeeded
  fnStarts, fnFails, fnOks,
  \* observation: callers whose in-flight fn was admitted while half-open
  probes,
  \* the service behind fn: once TRUE, every fn that completes returns
  healthy,
  \* RateLimiter fields; allowance is kept multiplied by Per so that the
  \* fractional tokens of the float arithmetic are integers
  allowance, last_check,
  \* asyncio.Lock of the RateLimiter: holder (0: unlocked) and FIFO waiters
  lock, waiters,
  \* coroutines inside RateLimiter.acquire: position, wake-up time of the sleep
  apc, awake,
  \* observation: acquire calls started and completed
  acqStarts, acquired,
  \* the asyncio event loop: the coroutine running on it (0: none)
  loop,
  \* coroutines inside route_task_optimized: position, task.prompt, what the
  \* call returned or raised
  pc, task, result,
  \* EnhancedCache rows (key = task.prompt) and AdvancedCache rows
  \* (key = prompt and agent name)
  cache, agentCache,
  \* OptimizedOrchestrator.monitor, EnhancedCache.monitor, Orchestrator.stats
  monitor, cacheMonitor, stats,
  \* observation: issue times of the external API requests of the last Per
  \* ticks, requests issued per prompt, executes started, executes in a row
  \* whose external request failed, requests answered per prompt
  recentCalls, extCalls, execs, consecFail, extOk,
  \* whether sqlite3 can open and use cache/ae_cache_v2.db; for a coroutine
  \* asleep in the execute_with_retry of route_task_optimized, the loop
  \* variable `attempt` and the wake-up time
  dbUp, orAttempt, orAwake,
  \* coroutines inside RetryHandler.execute_with_retry: position, loop
  \* variable `attempt`, wake-up time of the sleep, last_exception
  rpc, attempt, rawake, last_exception,
  \* observation of one execute_with_retry call: invocations of func,
  \* invocations that returned, delays slept, kind of the error func raised
  \* last, how the call ended; calls started in all
  rcalls, rok, rdelays, fnErr, rout, retryRuns,
  \* Debouncer.pending_tasks (key -> task, 0: no entry) and the tasks
  \* created by debounce, in order of creation (each task runs the func
  \* and arguments of the call that created it): key, creation time, state
  pending_tasks, timers,
  \* BatchProcessor.queue (item ids in order) and BatchProcessor.processing
  queue, processing,
  \* the process_batch tasks created by add_task, in order of creation:
  \* state, start_time, batch
  collectors,
  \* observation: time at which each item was passed to add_task (item id =
  \* index), and the batches handed to asyncio.gather, in order: the
  \* process_batch task, its items, the process_single calls that have ended
  \* (in the order they ended) and the list gather returned
  addedAt, flushes,
  \* DebouncedFileHandler.pending_files (path -> time of the last event,
  \* 0: no entry) and DebouncedFileHandler.processing_files
  pending_files, processing_files,
  \* the _process_after_debounce tasks created by on_created, in order of
  \* creation: path, wake-up time of the sleep, state
  hfTasks,
  \* observation: calls of _route_to_processor per path, events delivered
  routed, fsEvents

cbFields == <<state, failure_count, last_failure_time>>
cbClients == <<cpc, cout, fnStarts, fnFails, fnOks, probes, healthy>>
rlFields == <<allowance, last_check, lock, waiters>>
rlClients == <<apc, awake, acqStarts, acquired>>
orFields == <<cache, agentCache, monitor, cacheMonitor, stats>>
orClients == <<loop, pc, task, result, recentCalls, extCalls, execs, consecFail, extOk,
               dbUp, orAttempt, orAwake>>
rtVars == <<rpc, attempt, rawake, last_exception, rcalls, rok, rdelays, fnErr, rout, retryRuns>>
dbVars == <<pending_tasks, timers>>
bpVars == <<queue, processing, collectors, addedAt, flushes>>
hfVars == <<pending_files, processing_files, hfTasks, routed, fsEvents>>
utilVars == <<rtVars, dbVars, bpVars, hfVars>>
vars == <<now, cbFields, cbClients, rlFields, rlClients, orFields, orClients, utilVars>>

Callers == 1..NCallers
None == 0

\* ---------------------------------------------------------- CircuitBreaker
\* `time.time() - self.last_failure_time > self.recovery_timeout`, guarded by
\* the truthiness test of last_failure_time.
TimeoutElapsedFlipped(lft, t) == lft # None /\ t - lft < recovery_timeout
TimeoutElapsed(lft, t) == lft # None /\ t - lft > recovery_timeout

\* is_open(): the value returned.
IsOpen(st, lft, t) == st = "open" /\ ~TimeoutElapsed(lft, t)

\* is_open(): the state it leaves behind.
IsOpenState(st, lft, t) ==
  IF st = "open" /\ TimeoutElapsed(lft, t) THEN "half-open" ELSE st

\* call(): the success branch (lines 151-155).
SuccessStateStuck(st) == st
SuccessState(st) == IF st = "half-open" THEN "closed" ELSE st
SuccessCountKept(st, fc) == fc
SuccessCount(st, fc) == IF st = "half-open" THEN 0 ELSE fc

\* call(): the except branch (lines 157-164).
FailureStateEager(st, fc) == "open"
FailureStateStrict(st, fc) == IF fc + 1 > failure_threshold THEN "open" ELSE st
FailureState(st, fc) == IF fc + 1 >= failure_threshold THEN "open" ELSE st

\* call() up to `await func(...)`: raise when is_open(), else start fn.
CBCall(c) ==
  /\ cpc[c] = "idle"
  /\ fnStarts < MaxCalls
  /\ state' = IsOpenState(state, last_failure_time, now)
  /\ IF IsOpen(state, last_failure_time, now)
       THEN /\ cout' = [cout EXCEPT ![c] = "circuit_open"]
            /\ UNCHANGED <<cpc, fnStarts, probes>>
       ELSE /\ cpc' = [cpc EXCEPT ![c] = "in_fn"]
            /\ cout' = [cout EXCEPT ![c] = "pending"]
            /\ fnStarts' = fnStarts + 1
            /\ probes' = IF state' = "half-open" THEN probes \cup {c} ELSE probes
  /\ UNCHANGED <<now, failure_count, last_failure_time, fnFails, fnOks, healthy>>
  /\ UNCHANGED <<rlFields, rlClients, orFields, orClients, utilVars>>

\* fn returns: lines 151-155.
CBFnReturn(c) ==
  /\ cpc[c] = "in_fn"
  /\ state' = SuccessState(state)
  /\ failure_count' = SuccessCount(state, failure_count)
  /\ cpc' = [cpc EXCEPT ![c] = "idle"]
  /\ cout' = [cout EXCEPT ![c] = "ok"]
  /\ fnOks' = fnOks + 1
  /\ probes' = probes \ {c}
  /\ UNCHANGED <<now, last_failure_time, fnStarts, fnFails, healthy>>
  /\ UNCHANGED <<rlFields, rlClients, orFields, orClients, utilVars>>

\* fn raises: lines 157-164, the exception re-raised to the caller.
CBFnRaise(c) ==
  /\ cpc[c] = "in_fn"
  /\ failure_count' = failure_count + 1
  /\ last_failure_time' = now
  /\ state' = FailureState(state, failure_count)
  /\ cpc' = [cpc EXCEPT ![c] = "idle"]
  /\ cout' = [cout EXCEPT ![c] = "fn_error"]
  /\ fnFails' = fnFails + 1
  /\ probes' = probes \ {c}
  /\ UNCHANGED <<now, fnStarts, fnOks, healthy>>
  /\ UNCHANGED <<rlFields, rlClients, orFields, orClients, utilVars>>

\* The service behind fn recovers: from now on no fn raises.
ServiceRecovers ==
  /\ ~healthy
  /\ healthy' = TRUE
  /\ UNCHANGED <<now, cbFields, cpc, cout, fnStarts, fnFails, fnOks, probes>>
  /\ UNCHANGED <<rlFields, rlClients, orFields, orClients, utilVars>>

\* fn raises, which it does only until the service has recovered.
LiveFnRaise(c) == ~healthy /\ CBFnRaise(c)

\* health_check() polls is_open() (ae_automation_v2_optimized.py line 124).
CBPoll ==
  /\ state' = IsOpenState(state, last_failure_time, now)
  /\ state' # state
  /\ UNCHANGED <<now, failure_count, last_failure_time, cbClients>>
  /\ UNCHANGED <<rlFields, rlClients, orFields, orClients, utilVars>>

\* The clock. Time passes while the event loop is idle or blocked in the
\* synchronous API call; the straight-line code between two suspension
\* points takes no time. Requests issued Per ticks ago or earlier leave the
\* observed window.
Tick ==
  /\ now < 1 + MaxTime
  /\ IF loop = 0 THEN TRUE ELSE pc[loop] = "in_call"
  /\ now' = now + 1
  /\ recentCalls' = SelectSeq(recentCalls, LAMBDA t : now' - t < Per)
  /\ UNCHANGED <<cbFields, cbClients, rlFields, rlClients, orFields, utilVars>>
  /\ UNCHANGED <<loop, pc, task, result, extCalls, execs, consecFail, extOk,
                 dbUp, orAttempt, orAwake>>

\* ------------------------------------------------------------- RateLimiter
Min(a, b) == IF a <= b THEN a ELSE b
CeilDiv(a, b) == (a + b - 1) \div b

\* One token, in the unit of `allowance`.
Token == Per

\* Lines 102-109: replenish for the time since last_check, cap at rate.
RefillUncapped(al, lc, t) == al + (t - lc) * Rate
Refill(al, lc, t) == Min(Rate * Token, al + (t - lc) * Rate)

\* Line 113: sleep_time = (1.0 - allowance) * (per / rate), in ticks; a
\* fractional tick rounds up (asyncio.sleep never returns early).
SleepTicks(al) == CeilDiv(Token - al, Rate)

\* `async with self.lock` entered: lines 102-118 up to the sleep or the end.
AcquireBody(a) ==
  LET al == Refill(allowance, last_check, now) IN
  /\ last_check' = now
  /\ IF al < Token
       THEN /\ allowance' = al
            /\ lock' = a
            /\ apc' = [apc EXCEPT ![a] = "sleeping"]
            /\ awake' = [awake EXCEPT ![a] = now + SleepTicks(al)]
            /\ UNCHANGED acquired
       ELSE /\ allowance' = al - Token
            /\ lock' = 0
            /\ apc' = [apc EXCEPT ![a] = "idle"]
            /\ acquired' = acquired + 1
            /\ UNCHANGED awake

\* acquire() called: take the lock if it is free and nobody waits for it,
\* else queue on it (asyncio.Lock is FIFO).
AcquireEnter(a) ==
  /\ apc[a] = "idle"
  /\ acqStarts' = acqStarts + 1
  /\ IF lock = 0 /\ waiters = <<>>
       THEN AcquireBody(a) /\ UNCHANGED waiters
       ELSE /\ waiters' = Append(waiters, a)
            /\ apc' = [apc EXCEPT ![a] = "lock_wait"]
            /\ UNCHANGED <<allowance, last_check, lock, awake, acquired>>

\* The lock was released and this coroutine is the first waiter.
AcquireGranted(a) ==
  /\ apc[a] = "lock_wait"
  /\ lock = 0
  /\ Head(waiters) = a
  /\ waiters' = Tail(waiters)
  /\ AcquireBody(a)
  /\ UNCHANGED acqStarts

\* Lines 115-118: the sleep is over; allowance = 1.0, then -= 1.0; the lock
\* is released.
AcquireWake(a) ==
  /\ apc[a] = "sleeping"
  /\ now >= awake[a]
  /\ allowance' = Token - Token
  /\ lock' = 0
  /\ apc' = [apc EXCEPT ![a] = "idle"]
  /\ acquired' = acquired + 1
  /\ awake' = [awake EXCEPT ![a] = 0]
  /\ UNCHANGED <<last_check, waiters, acqStarts>>

\* Coroutines that call rate_limiter.acquire() directly
\* (test_optimizations.py, test_rate_limiting).
RLAcquire(a) ==
  /\ acqStarts < MaxAcquires
  /\ AcquireEnter(a)
  /\ UNCHANGED <<now, cbFields, cbClients, orFields, orClients, utilVars>>

RLGranted(a) ==
  /\ AcquireGranted(a)
  /\ UNCHANGED <<now, cbFields, cbClients, orFields, orClients, utilVars>>

RLWake(a) ==
  /\ AcquireWake(a)
  /\ UNCHANGED <<now, cbFields, cbClients, orFields, orClients, utilVars>>

NextRL ==
  \/ \E a \in Callers : RLAcquire(a)
  \/ \E a \in Callers : RLGranted(a)
  \/ \E a \in Callers : RLWake(a)
  \/ Tick

\* ---------------------------------------------------- OptimizedOrchestrator
\* EnhancedCache and AdvancedCache both open cache/ae_cache_v2.db and both
\* CREATE TABLE IF NOT EXISTS cache, with different columns; their keys
\* (md5 of the prompt, sha256 of prompt and agent) never coincide. The model
\* is of a database whose table serves the statements of both classes, so
\* that each class sees the rows it wrote: `cache` holds EnhancedCache's
\* rows and `agentCache` AdvancedCache's. AdvancedCache's hit_count and
\* quality_score (always 1.0) and the monitor's response-time samples are
\* not part of the state.
Prompts == 0..NPrompts
Texts == 0..NTexts
EmptyText == 0
NoRow == -1

\* Python truthiness of an Optional[str]: None and "" are false
\* (`if cached_result:`, `if cached:`).
TruthyNever(v) == FALSE
Truthy(v) == v # NoRow /\ v # EmptyText

\* Orchestrator.route_task: some registered agent's can_handle(task) holds.
CanHandle(f) == f >= 1

\* EnhancedCache.get: the row's value if `expires_at > current_time`.
CacheGet(f) ==
  IF cache[f].value # NoRow /\ cache[f].expires_at > now
    THEN cache[f].value ELSE NoRow

\* EnhancedCache.store: INSERT OR REPLACE with expires_at = now + ttl.
CacheStore(f, v) ==
  [cache EXCEPT ![f] = [value |-> v, expires_at |-> now + CacheTtl, hit_count |-> 0]]

\* route_task_optimized lines 69-76: the result is stored only `if
\* result.success`.
StoreAlways(f, success, v) == CacheStore(f, v)
StoreIfSuccess(f, success, v) == IF success THEN CacheStore(f, v) ELSE cache

\* BaseAgent.execute calls the synchronous client (`self.client.messages
\* .create`, not awaited): the coroutine keeps the event loop while the
\* request is in flight.
CallYieldsLoop == FALSE
CallHoldsLoop == TRUE

Returned(p, k, v) == [result EXCEPT ![p] = [kind |-> k, value |-> v]]

\* route_task_optimized returns or raises: the coroutine is done.
Finished(p) ==
  /\ pc' = [pc EXCEPT ![p] = "idle"]
  /\ task' = [task EXCEPT ![p] = 0]
  /\ loop' = 0

\* route_task_optimized, lines 46-55: the cache lookup. EnhancedCache.get
\* has no exception handler and line 49 is outside the try of line 60: when
\* sqlite3 raises, route_task_optimized raises.
OrSubmit(p, f) ==
  /\ loop = 0
  /\ pc[p] = "idle"
  /\ execs' = execs + 1
  /\ IF ~dbUp THEN
       /\ result' = Returned(p, "cache_error", NoRow)
       /\ UNCHANGED <<cache, cacheMonitor, monitor, pc, loop, task, consecFail>>
     ELSE
     LET v == CacheGet(f) IN
     /\ cache' = IF v # NoRow THEN [cache EXCEPT ![f].hit_count = @ + 1] ELSE cache
     /\ cacheMonitor' = IF v # NoRow
                          THEN [cacheMonitor EXCEPT !.cache_hits = @ + 1]
                          ELSE [cacheMonitor EXCEPT !.cache_misses = @ + 1]
     /\ IF Truthy(v)
          THEN /\ monitor' = [monitor EXCEPT !.cache_hits = @ + 1]
               /\ result' = Returned(p, "cached", v)
               /\ consecFail' = 0
               /\ UNCHANGED <<pc, loop, task>>
          ELSE /\ monitor' = [monitor EXCEPT !.cache_misses = @ + 1]
               /\ result' = Returned(p, "pending", NoRow)
               /\ task' = [task EXCEPT ![p] = f]
               /\ pc' = [pc EXCEPT ![p] = "acquire"]
               /\ loop' = p
               /\ UNCHANGED consecFail
  /\ UNCHANGED <<now, cbFields, cbClients, rlFields, rlClients, agentCache, stats, utilVars,
                 recentCalls, extCalls, extOk, dbUp, orAttempt, orAwake>>

\* Line 58, `await self.rate_limiter.acquire()`: the coroutine goes on to the
\* breaker when acquire returns, and leaves the event loop when it suspends.
AfterAcquire(p) ==
  IF apc'[p] = "idle"
    THEN pc' = [pc EXCEPT ![p] = "breaker"] /\ loop' = p
    ELSE pc' = pc /\ loop' = 0

OrAcquire(p) ==
  /\ loop = p
  /\ pc[p] = "acquire"
  /\ AcquireEnter(p)
  /\ AfterAcquire(p)
  /\ UNCHANGED <<now, cbFields, cbClients, orFields, task, result, utilVars,
                 recentCalls, extCalls, execs, consecFail, extOk,
                 dbUp, orAttempt, orAwake>>

OrGranted(p) ==
  /\ loop = 0
  /\ pc[p] = "acquire"
  /\ AcquireGranted(p)
  /\ AfterAcquire(p)
  /\ UNCHANGED <<now, cbFields, cbClients, orFields, task, result, utilVars,
                 recentCalls, extCalls, execs, consecFail, extOk,
                 dbUp, orAttempt, orAwake>>

OrWake(p) ==
  /\ loop = 0
  /\ pc[p] = "acquire"
  /\ AcquireWake(p)
  /\ AfterAcquire(p)
  /\ UNCHANGED <<now, cbFields, cbClients, orFields, task, result, utilVars,
                 recentCalls, extCalls, execs, consecFail, extOk,
                 dbUp, orAttempt, orAwake>>

RECURSIVE Pow2(_)
Pow2(k) == IF k = 0 THEN 1 ELSE 2 * Pow2(k - 1)

\* Line 188: delay = self.base_delay * (2 ** attempt).
BackoffConstant(k) == base_delay
Backoff(k) == base_delay * Pow2(k)

\* One pass of the loop of execute_with_retry (attempt k) around
\* Orchestrator.route_task, with the breaker in state st: route_task lines
\* 475-507 and BaseAgent.execute lines 194-212. BaseAgent.execute catches
\* the API error (ae_automation_v2.py line 240) but its cache lookup at line
\* 194 is outside the try: when sqlite3 raises there, execute_with_retry
\* catches the error and sleeps base_delay * 2^k, or, on the last attempt,
\* re-raises it through the breaker's except branch and lines 83-87.
RouteAttempt(p, st, k) ==
  LET f == task[p] IN
  IF ~CanHandle(f)
    THEN \* route_task lines 500-507: AgentResult(success=False)
         /\ state' = SuccessState(st)
         /\ failure_count' = SuccessCount(st, failure_count)
         /\ stats' = [stats EXCEPT !.total_tasks = @ + 1]
         /\ monitor' = [monitor EXCEPT !.requests_failed = @ + 1]
         /\ result' = Returned(p, "failed", NoRow)
         /\ Finished(p)
         /\ consecFail' = 0
         /\ cache' = StoreIfSuccess(f, FALSE, NoRow)
         /\ UNCHANGED <<last_failure_time, agentCache, recentCalls, extCalls,
                        orAttempt, orAwake>>
  ELSE IF ~dbUp /\ k < max_retries - 1
    THEN \* AdvancedCache.get raises; ae_optimizations.py lines 185-190
         /\ state' = st
         /\ stats' = [stats EXCEPT !.total_tasks = @ + 1]
         /\ pc' = [pc EXCEPT ![p] = "retry_sleep"]
         /\ loop' = 0
         /\ orAttempt' = [orAttempt EXCEPT ![p] = k]
         /\ orAwake' = [orAwake EXCEPT ![p] = now + Backoff(k)]
         /\ UNCHANGED <<failure_count, last_failure_time, monitor, result, cache,
                        agentCache, recentCalls, extCalls, consecFail, task>>
  ELSE IF ~dbUp
    THEN \* AdvancedCache.get raises on the last attempt: `raise
         \* last_exception` (ae_optimizations.py line 194), the breaker's
         \* lines 157-164, lines 83-87
         /\ stats' = [stats EXCEPT !.total_tasks = @ + 1]
         /\ failure_count' = failure_count + 1
         /\ last_failure_time' = now
         /\ state' = FailureState(st, failure_count)
         /\ monitor' = [monitor EXCEPT !.requests_failed = @ + 1]
         /\ result' = Returned(p, "cache_error", NoRow)
         /\ Finished(p)
         /\ UNCHANGED <<cache, agentCache, recentCalls, extCalls, consecFail,
                        orAttempt, orAwake>>
  ELSE IF Truthy(agentCache[f])
    THEN \* BaseAgent.execute lines 194-204: AdvancedCache hit
         /\ state' = SuccessState(st)
         /\ failure_count' = SuccessCount(st, failure_count)
         /\ stats' = [stats EXCEPT !.total_tasks = @ + 1, !.cache_hits = @ + 1]
         /\ cache' = StoreIfSuccess(f, TRUE, agentCache[f])
         /\ monitor' = [monitor EXCEPT !.requests_ok = @ + 1]
         /\ result' = Returned(p, "ok", agentCache[f])
         /\ Finished(p)
         /\ consecFail' = 0
         /\ UNCHANGED <<last_failure_time, agentCache, recentCalls, extCalls,
                        orAttempt, orAwake>>
    ELSE \* BaseAgent.execute line 212: the API request goes out
         /\ state' = st
         /\ stats' = [stats EXCEPT !.total_tasks = @ + 1]
         /\ recentCalls' = Append(recentCalls, now)
         /\ extCalls' = [extCalls EXCEPT ![f] = @ + 1]
         /\ pc' = [pc EXCEPT ![p] = "in_call"]
         /\ loop' = IF CallHoldsLoop THEN p ELSE 0
         /\ UNCHANGED <<failure_count, last_failure_time, monitor, result, cache,
                        agentCache, consecFail, task, orAttempt, orAwake>>

\* Lines 61-87 up to the API request: circuit_breaker.call(
\* retry_handler.execute_with_retry, route_task, task). route_task and
\* BaseAgent.execute return an AgentResult on every path on which the
\* cache database answers, so execute_with_retry returns from its first
\* attempt and the breaker takes its success branch.
OrBreaker(p) ==
  /\ loop = p
  /\ pc[p] = "breaker"
  /\ LET st == IsOpenState(state, last_failure_time, now) IN
     IF IsOpen(state, last_failure_time, now)
       THEN \* line 147 raises; lines 83-87 record the failure and re-raise
            /\ state' = st
            /\ monitor' = [monitor EXCEPT !.requests_failed = @ + 1]
            /\ result' = Returned(p, "circuit_open", NoRow)
            /\ Finished(p)
            /\ UNCHANGED <<failure_count, last_failure_time, stats, cache, agentCache,
                           recentCalls, extCalls, consecFail, orAttempt, orAwake>>
       ELSE RouteAttempt(p, st, 0)
  /\ UNCHANGED <<now, cbClients, rlFields, rlClients, utilVars,
                 cacheMonitor, execs, extOk, dbUp>>

\* The sleep of execute_with_retry (ae_optimizations.py line 190) is over:
\* the next attempt.
OrRetryWake(p) ==
  /\ loop = 0
  /\ pc[p] = "retry_sleep"
  /\ now >= orAwake[p]
  /\ RouteAttempt(p, state, orAttempt[p] + 1)
  /\ UNCHANGED <<now, cbClients, rlFields, rlClients, utilVars,
                 cacheMonitor, execs, extOk, dbUp>>

\* The API answers with text v: BaseAgent.execute lines 218-238, route_task
\* lines 489-498, the breaker's success branch, route_task_optimized lines
\* 69-81. When AdvancedCache.store raises (line 229, inside the try), line
\* 240 turns the answer into AgentResult(success=False).
OrCallReturn(p, v) ==
  /\ pc[p] = "in_call"
  /\ loop \in {0, p}
  /\ stats' = [stats EXCEPT !.sonnet_calls = @ + 1]
  /\ state' = SuccessState(state)
  /\ failure_count' = SuccessCount(state, failure_count)
  /\ consecFail' = 0
  /\ extOk' = [extOk EXCEPT ![task[p]] = @ + 1]
  /\ IF dbUp
       THEN /\ agentCache' = [agentCache EXCEPT ![task[p]] = v]
            /\ cache' = StoreIfSuccess(task[p], TRUE, v)
            /\ monitor' = [monitor EXCEPT !.requests_ok = @ + 1]
            /\ result' = Returned(p, "ok", v)
       ELSE /\ agentCache' = agentCache
            /\ cache' = StoreIfSuccess(task[p], FALSE, NoRow)
            /\ monitor' = [monitor EXCEPT !.requests_failed = @ + 1]
            /\ result' = Returned(p, "failed", NoRow)
  /\ UNCHANGED <<recentCalls, extCalls>>
  /\ Finished(p)
  /\ UNCHANGED <<now, last_failure_time, cbClients, rlFields, rlClients, utilVars,
                 cacheMonitor, execs, dbUp, orAttempt, orAwake>>

\* The API error not caught by BaseAgent.execute: execute_with_retry calls
\* route_task again and a second request goes out on the same token.
OrCallRaiseRetried(p) ==
  /\ pc[p] = "in_call"
  /\ loop \in {0, p}
  /\ extCalls' = [extCalls EXCEPT ![task[p]] = @ + 1]
  /\ recentCalls' = Append(recentCalls, now)
  /\ UNCHANGED <<now, cbFields, cbClients, rlFields, rlClients, orFields, utilVars,
                 loop, pc, task, result, execs, consecFail, extOk, dbUp, orAttempt,
                 orAwake>>

\* The API request times out or fails: BaseAgent.execute lines 240-249
\* return AgentResult(success=False); nothing is stored.
OrCallRaise(p) ==
  /\ pc[p] = "in_call"
  /\ loop \in {0, p}
  /\ stats' = [stats EXCEPT !.sonnet_calls = @ + 1]
  /\ state' = SuccessState(state)
  /\ failure_count' = SuccessCount(state, failure_count)
  /\ monitor' = [monitor EXCEPT !.requests_failed = @ + 1]
  /\ result' = Returned(p, "failed", NoRow)
  /\ consecFail' = consecFail + 1
  /\ cache' = StoreIfSuccess(task[p], FALSE, NoRow)
  /\ UNCHANGED <<recentCalls, extCalls, extOk>>
  /\ Finished(p)
  /\ UNCHANGED <<now, last_failure_time, cbClients, rlFields, rlClients, utilVars,
                 agentCache, cacheMonitor, execs, dbUp, orAttempt, orAwake>>

\* Concurrent submissions (asyncio.gather / create_task of several calls).
\* Coroutines are interchangeable: a new call runs as the first idle one.
Submit(p, f) ==
  /\ execs < MaxExecs
  /\ \A q \in Callers : q < p => pc[q] # "idle"
  /\ OrSubmit(p, f)

\* One coroutine awaiting each call before it makes the next.
SeqSubmit(f) == execs < MaxSeqExecs /\ OrSubmit(1, f)

Next ==
  \/ \E p \in Callers, f \in Prompts : Submit(p, f)
  \/ \E p \in Callers : OrAcquire(p)
  \/ \E p \in Callers : OrGranted(p)
  \/ \E p \in Callers : OrWake(p)
  \/ \E p \in Callers : OrBreaker(p)
  \/ \E p \in Callers, v \in Texts : OrCallReturn(p, v)
  \/ \E p \in Callers : OrCallRaise(p)
  \/ Tick

NextSeq ==
  \/ \E f \in Prompts : SeqSubmit(f)
  \/ OrAcquire(1)
  \/ OrWake(1)
  \/ OrBreaker(1)
  \/ \E v \in Texts : OrCallReturn(1, v)
  \/ OrCallRaise(1)
  \/ Tick

\* The cache database becomes unusable (file locked, removed, disk full,
\* directory unreadable) and usable again.
DbFails ==
  /\ dbUp
  /\ dbUp' = FALSE
  /\ UNCHANGED <<now, cbFields, cbClients, rlFields, rlClients, orFields, utilVars>>
  /\ UNCHANGED <<loop, pc, task, result, recentCalls, extCalls, execs, consecFail,
                 extOk, orAttempt, orAwake>>

DbRestored ==
  /\ ~dbUp
  /\ dbUp' = TRUE
  /\ UNCHANGED <<now, cbFields, cbClients, rlFields, rlClients, orFields, utilVars>>
  /\ UNCHANGED <<loop, pc, task, result, recentCalls, extCalls, execs, consecFail,
                 extOk, orAttempt, orAwake>>

\* One coroutine submitting the same task again and again, awaiting each
\* call before it makes the next, with a cache database that comes and goes.
DegPrompts == {NPrompts}
DegSubmit(f) == execs < MaxDegExecs /\ OrSubmit(1, f)

NextDeg ==
  \/ \E f \in DegPrompts : DegSubmit(f)
  \/ OrAcquire(1)
  \/ OrWake(1)
  \/ OrBreaker(1)
  \/ OrRetryWake(1)
  \/ \E v \in Texts : OrCallReturn(1, v)
  \/ OrCallRaise(1)
  \/ DbFails
  \/ DbRestored
  \/ Tick

\* OptimizedOrchestrator.health_check (lines 116-144): is_open() is called
\* for its value and leaves its state change behind; the cache probe looks
\* up a key no task has, which EnhancedCache.get records as a miss (a
\* sqlite3 error is caught); the monitor is only read.
HealthCheck ==
  /\ cacheMonitor.cache_misses < MaxPolls
  /\ state' = IsOpenState(state, last_failure_time, now)
  /\ cacheMonitor' = IF dbUp THEN [cacheMonitor EXCEPT !.cache_misses = @ + 1]
                     ELSE cacheMonitor
  /\ UNCHANGED <<now, failure_count, last_failure_time, cbClients, rlFields, rlClients,
                 cache, agentCache, monitor, stats, orClients, utilVars>>

\* Callers of CircuitBreaker.call and a dashboard polling health_check.
NextObs ==
  \/ \E c \in Callers : CBCall(c)
  \/ \E c \in Callers : CBFnReturn(c)
  \/ \E c \in Callers : CBFnRaise(c)
  \/ HealthCheck
  \/ Tick

\* ------------------------------------------------------------ RetryHandler
ErrKinds == 1..NErrKinds

\* Line 183, `await func(*args, **kwargs)`: func is invoked.
InvokeFunc(c) ==
  /\ rpc' = [rpc EXCEPT ![c] = "in_fn"]
  /\ rcalls' = [rcalls EXCEPT ![c] = @ + 1]

\* execute_with_retry called: lines 179-183 with attempt = 0.
RetryStart(c) ==
  /\ retryRuns < MaxRetryRuns
  /\ max_retries >= 1
  /\ rpc[c] = "idle"
  /\ retryRuns' = retryRuns + 1
  /\ attempt' = [attempt EXCEPT ![c] = 0]
  /\ last_exception' = [last_exception EXCEPT ![c] = None]
  /\ rpc' = [rpc EXCEPT ![c] = "in_fn"]
  /\ rcalls' = [rcalls EXCEPT ![c] = 1]
  /\ rok' = [rok EXCEPT ![c] = 0]
  /\ rdelays' = [rdelays EXCEPT ![c] = <<>>]
  /\ fnErr' = [fnErr EXCEPT ![c] = None]
  /\ rout' = [rout EXCEPT ![c] = [kind |-> "running", err |-> None]]
  /\ UNCHANGED rawake
  /\ UNCHANGED <<now, cbFields, cbClients, rlFields, rlClients, orFields, orClients, dbVars, bpVars, hfVars>>

\* func returns: line 183 returns its value at once.
RetryFnReturn(c) ==
  /\ rpc[c] = "in_fn"
  /\ rpc' = [rpc EXCEPT ![c] = "idle"]
  /\ rout' = [rout EXCEPT ![c] = [kind |-> "ok", err |-> None]]
  /\ rok' = [rok EXCEPT ![c] = @ + 1]
  /\ UNCHANGED <<attempt, rawake, last_exception, rcalls, rdelays, fnErr, retryRuns>>
  /\ UNCHANGED <<now, cbFields, cbClients, rlFields, rlClients, orFields, orClients, dbVars, bpVars, hfVars>>

\* func raises an exception of kind e: lines 185-194.
RetryFnRaise(c, e) ==
  /\ rpc[c] = "in_fn"
  /\ fnErr' = [fnErr EXCEPT ![c] = e]
  /\ last_exception' = [last_exception EXCEPT ![c] = e]
  /\ IF attempt[c] < max_retries - 1
       THEN /\ rdelays' = [rdelays EXCEPT ![c] = Append(@, Backoff(attempt[c]))]
            /\ rawake' = [rawake EXCEPT ![c] = now + Backoff(attempt[c])]
            /\ rpc' = [rpc EXCEPT ![c] = "sleeping"]
            /\ UNCHANGED rout
       ELSE \* the loop is over: raise last_exception
            /\ rpc' = [rpc EXCEPT ![c] = "idle"]
            /\ rout' = [rout EXCEPT ![c] = [kind |-> "raised", err |-> last_exception'[c]]]
            /\ UNCHANGED <<rdelays, rawake>>
  /\ UNCHANGED <<attempt, rcalls, rok, retryRuns>>
  /\ UNCHANGED <<now, cbFields, cbClients, rlFields, rlClients, orFields, orClients, dbVars, bpVars, hfVars>>

\* Line 190: the sleep is over; the loop goes on with the next attempt.
RetryWake(c) ==
  /\ rpc[c] = "sleeping"
  /\ now >= rawake[c]
  /\ attempt' = [attempt EXCEPT ![c] = @ + 1]
  /\ InvokeFunc(c)
  /\ UNCHANGED <<rawake, last_exception, rok, rdelays, fnErr, rout, retryRuns>>
  /\ UNCHANGED <<now, cbFields, cbClients, rlFields, rlClients, orFields, orClients, dbVars, bpVars, hfVars>>

NextRetry ==
  \/ \E c \in Callers : RetryStart(c)
  \/ \E c \in Callers : RetryFnReturn(c)
  \/ \E c \in Callers, e \in ErrKinds : RetryFnRaise(c, e)
  \/ \E c \in Callers : RetryWake(c)
  \/ Tick

\* --------------------------------------------------------------- Debouncer
Keys == 1..NKeys

\* task.cancel(): a task suspended in asyncio.sleep ends cancelled (the
\* sleep is outside the try); a task suspended inside func gets
\* CancelledError thrown into func, which delayed_execution catches (lines
\* 309-310); a finished task is not affected.
CancelIgnored(st) == st
Cancelled(st) ==
  CASE st = "sleeping" -> "cancelled"
    [] st = "running" -> "aborted"
    [] OTHER -> st

SetState(i, st) == [timers EXCEPT ![i].st = st]

\* Lines 300-301 without the membership test: never cancel.
CancelNone(k) == timers
CancelPending(k) ==
  IF pending_tasks[k] # 0
    THEN SetState(pending_tasks[k], Cancelled(timers[pending_tasks[k]].st))
    ELSE timers

\* debounce(key, func, *args): lines 299-313.
Debounce(k) ==
  /\ Len(timers) < MaxEvents
  /\ timers' = Append(CancelPending(k),
                      [key |-> k, at |-> now, st |-> "sleeping"])
  /\ pending_tasks' = [pending_tasks EXCEPT ![k] = Len(timers) + 1]
  /\ UNCHANGED <<now, cbFields, cbClients, rlFields, rlClients, orFields, orClients, rtVars, bpVars, hfVars>>

\* Line 304-306: the sleep is over, func is invoked.
TimerFire(i) ==
  /\ timers[i].st = "sleeping"
  /\ now >= timers[i].at + delay
  /\ timers' = SetState(i, "running")
  /\ UNCHANGED pending_tasks
  /\ UNCHANGED <<now, cbFields, cbClients, rlFields, rlClients, orFields, orClients, rtVars, bpVars, hfVars>>

\* Lines 306-308: func returned; `del self.pending_tasks[key]` raises
\* KeyError when the key has no entry.
DebFnReturn(i) ==
  /\ timers[i].st = "running"
  /\ IF pending_tasks[timers[i].key] # 0
       THEN /\ pending_tasks' = [pending_tasks EXCEPT ![timers[i].key] = 0]
            /\ timers' = SetState(i, "done")
       ELSE /\ timers' = SetState(i, "failed")
            /\ UNCHANGED pending_tasks
  /\ UNCHANGED <<now, cbFields, cbClients, rlFields, rlClients, orFields, orClients, rtVars, bpVars, hfVars>>

\* Line 306: func raised an exception other than CancelledError; it leaves
\* delayed_execution through the try, the `del` is skipped.
DebFnRaise(i) ==
  /\ timers[i].st = "running"
  /\ timers' = SetState(i, "failed")
  /\ UNCHANGED pending_tasks
  /\ UNCHANGED <<now, cbFields, cbClients, rlFields, rlClients, orFields, orClients, rtVars, bpVars, hfVars>>

NextDeb ==
  \/ \E k \in Keys : Debounce(k)
  \/ \E i \in DOMAIN timers : TimerFire(i)
  \/ \E i \in DOMAIN timers : DebFnReturn(i)
  \/ \E i \in DOMAIN timers : DebFnRaise(i)
  \/ Tick

\* ---------------------------------------------------------- BatchProcessor
\* Line 344: the time left is batch_timeout less the time since start_time.
Deadline(c) == collectors[c].start_time + batch_timeout

\* queue.get() removes the item it returns.
DequeueKeep(q) == q
Dequeue(q) == Tail(q)

\* Lines 360-366: a non-empty batch is handed to asyncio.gather; an empty
\* one ends process_batch, and `finally` clears the flag.
Flush(c, b) ==
  IF b # <<>>
    THEN /\ collectors' = [collectors EXCEPT ![c].st = "dispatching", ![c].batch = b]
         /\ flushes' = Append(flushes, [by |-> c, items |-> b,
                                        finished |-> <<>>, results |-> <<>>])
         /\ UNCHANGED processing
    ELSE /\ collectors' = [collectors EXCEPT ![c].st = "done", ![c].batch = b]
         /\ processing' = FALSE
         /\ UNCHANGED flushes

\* add_task(task): lines 330-332. The put on the unbounded queue does not
\* suspend; the new process_batch task runs at a later step of the loop.
AddTask ==
  /\ Len(addedAt) < MaxItems
  /\ processing \/ Len(collectors) < MaxCollectors
  /\ addedAt' = Append(addedAt, now)
  /\ queue' = Append(queue, Len(addedAt) + 1)
  /\ collectors' =
       IF ~processing
         THEN Append(collectors, [st |-> "created", start_time |-> 0, batch |-> <<>>])
         ELSE collectors
  /\ UNCHANGED <<processing, flushes>>
  /\ UNCHANGED <<now, cbFields, cbClients, rlFields, rlClients, orFields, orClients, rtVars, dbVars, hfVars>>

\* process_batch starts to run: lines 336-338.
CollectorStart(c) ==
  /\ collectors[c].st = "created"
  /\ processing' = TRUE
  /\ collectors' = [collectors EXCEPT ![c].st = "collecting", ![c].start_time = now]
  /\ UNCHANGED <<queue, addedAt, flushes>>
  /\ UNCHANGED <<now, cbFields, cbClients, rlFields, rlClients, orFields, orClients, rtVars, dbVars, hfVars>>

\* Lines 344-355: wait_for(queue.get()) yields an item before the time is
\* up; the batch is flushed when it has reached batch_size.
CollectorTake(c) ==
  /\ collectors[c].st = "collecting"
  /\ queue # <<>>
  /\ now < Deadline(c)
  /\ queue' = Dequeue(queue)
  /\ LET b == Append(collectors[c].batch, Head(queue)) IN
       IF Len(b) >= batch_size
         THEN Flush(c, b)
         ELSE /\ collectors' = [collectors EXCEPT ![c].batch = b]
              /\ UNCHANGED <<processing, flushes>>
  /\ UNCHANGED addedAt
  /\ UNCHANGED <<now, cbFields, cbClients, rlFields, rlClients, orFields, orClients, rtVars, dbVars, hfVars>>

\* Lines 345-346 and 357-358: the time is up.
CollectorTimeout(c) ==
  /\ collectors[c].st = "collecting"
  /\ now >= Deadline(c)
  /\ Flush(c, collectors[c].batch)
  /\ UNCHANGED <<queue, addedAt>>
  /\ UNCHANGED <<now, cbFields, cbClients, rlFields, rlClients, orFields, orClients, rtVars, dbVars, hfVars>>

\* The batch handed to gather by process_batch task c.
FlushOf(c) == CHOOSE m \in DOMAIN flushes : flushes[m].by = c

\* asyncio.gather(*aws, return_exceptions=True), lines 362-365: the list it
\* returns has, at the place of each awaitable, what it returned or raised.
GatherAsCompleted(items, fin) == fin
Gather(items, fin) ==
  [n \in DOMAIN items |->
     CHOOSE r \in {fin[j] : j \in DOMAIN fin} : r.item = items[n]]

\* Lines 362-369 with BatchProcessor's own process_single, which is `pass`:
\* every call returns None, gather returns at once; `finally` clears the
\* flag.
DispatchDone(c) ==
  /\ collectors[c].st = "dispatching"
  /\ collectors' = [collectors EXCEPT ![c].st = "done"]
  /\ processing' = FALSE
  /\ LET m == FlushOf(c)
         fin == [n \in DOMAIN flushes[m].items |->
                   [item |-> flushes[m].items[n], ok |-> TRUE]]
     IN flushes' = [flushes EXCEPT ![m].finished = fin,
                                   ![m].results = Gather(flushes[m].items, fin)]
  /\ UNCHANGED <<queue, addedAt>>
  /\ UNCHANGED <<now, cbFields, cbClients, rlFields, rlClients, orFields, orClients, rtVars, dbVars, hfVars>>

\* With a process_single that does work (an override): the call for the
\* n-th item of the batch of task c ends, by returning or by raising.
ItemEnds(c, n, ok) ==
  /\ collectors[c].st = "dispatching"
  /\ LET m == FlushOf(c) IN
       /\ n \in DOMAIN flushes[m].items
       /\ \A j \in DOMAIN flushes[m].finished :
            flushes[m].finished[j].item # flushes[m].items[n]
       /\ flushes' = [flushes EXCEPT ![m].finished =
                        Append(@, [item |-> flushes[m].items[n], ok |-> ok])]
  /\ UNCHANGED <<queue, processing, collectors, addedAt>>
  /\ UNCHANGED <<now, cbFields, cbClients, rlFields, rlClients, orFields, orClients, rtVars, dbVars, hfVars>>

\* Every process_single call of the batch has ended: gather returns its
\* list, process_batch returns it, `finally` clears the flag.
GatherReturns(c) ==
  /\ collectors[c].st = "dispatching"
  /\ LET m == FlushOf(c) IN
       /\ Len(flushes[m].finished) = Len(flushes[m].items)
       /\ flushes' = [flushes EXCEPT ![m].results =
                        Gather(flushes[m].items, flushes[m].finished)]
  /\ collectors' = [collectors EXCEPT ![c].st = "done"]
  /\ processing' = FALSE
  /\ UNCHANGED <<queue, addedAt>>
  /\ UNCHANGED <<now, cbFields, cbClients, rlFields, rlClients, orFields, orClients, rtVars, dbVars, hfVars>>

\* No process_batch task can take a step: each is waiting for an item or
\* for its timeout, or is done. process_single is `pass`, timers fire when
\* due and ready tasks run at once, so time passes only then.
Quiescent ==
  \A c \in DOMAIN collectors :
    \/ collectors[c].st = "done"
    \/ collectors[c].st = "collecting" /\ queue = <<>> /\ now < Deadline(c)

BatchTick == Quiescent /\ Tick

\* With a process_single that takes time, time also passes while a batch is
\* being processed.
GatherTick ==
  /\ \A c \in DOMAIN collectors :
       \/ collectors[c].st \in {"done", "dispatching"}
       \/ collectors[c].st = "collecting" /\ queue = <<>> /\ now < Deadline(c)
  /\ Tick

NextBatch ==
  \/ AddTask
  \/ \E c \in DOMAIN collectors : CollectorStart(c)
  \/ \E c \in DOMAIN collectors : CollectorTake(c)
  \/ \E c \in DOMAIN collectors : CollectorTimeout(c)
  \/ \E c \in DOMAIN collectors : DispatchDone(c)
  \/ BatchTick

\* The same with a process_single that takes time and may raise, for fewer
\* items.
GatherAdd == Len(addedAt) < MaxGatherItems /\ AddTask

NextGather ==
  \/ GatherAdd
  \/ \E c \in DOMAIN collectors : CollectorStart(c)
  \/ \E c \in DOMAIN collectors : CollectorTake(c)
  \/ \E c \in DOMAIN collectors : CollectorTimeout(c)
  \/ \E c \in DOMAIN collectors, n \in 1..batch_size, ok \in BOOLEAN : ItemEnds(c, n, ok)
  \/ \E c \in DOMAIN collectors : GatherReturns(c)
  \/ GatherTick

\* ---------------------------------------------------- DebouncedFileHandler
Files == 1..NFiles

\* on_created for a path that is not a directory: the time of the event is
\* recorded and a task running _process_after_debounce(file_path) is
\* created. Events are delivered early enough for the sleep of the task to
\* end within the modelled time.
OnCreated(f) ==
  /\ fsEvents < MaxFsEvents
  /\ now + debounce_time <= 1 + MaxTime
  /\ pending_files' = [pending_files EXCEPT ![f] = now]
  /\ hfTasks' = Append(hfTasks, [file |-> f, wake |-> now + debounce_time, st |-> "sleeping"])
  /\ fsEvents' = fsEvents + 1
  /\ UNCHANGED <<processing_files, routed>>
  /\ UNCHANGED <<now, cbFields, cbClients, rlFields, rlClients, orFields, orClients,
                 rtVars, dbVars, bpVars>>

\* on_modified for a path that is not a directory: the recorded time of a
\* pending path is replaced; no task is created.
OnModified(f) ==
  /\ fsEvents < MaxFsEvents
  /\ now + debounce_time <= 1 + MaxTime
  /\ pending_files' = IF pending_files[f] # None
                        THEN [pending_files EXCEPT ![f] = now]
                        ELSE pending_files
  /\ fsEvents' = fsEvents + 1
  /\ UNCHANGED <<processing_files, hfTasks, routed>>
  /\ UNCHANGED <<now, cbFields, cbClients, rlFields, rlClients, orFields, orClients,
                 rtVars, dbVars, bpVars>>

\* _process_after_debounce after its sleep: the path is taken out of
\* pending_files and routed when its last event is debounce_time old and it
\* is not being processed; otherwise the task ends.
ProcessAfterDebounce(i) ==
  LET f == hfTasks[i].file
      due == pending_files[f] # None /\ now - pending_files[f] >= debounce_time
      route == due /\ f \notin processing_files
  IN /\ hfTasks[i].st = "sleeping"
     /\ now >= hfTasks[i].wake
     /\ pending_files' = IF due THEN [pending_files EXCEPT ![f] = None] ELSE pending_files
     /\ processing_files' = IF route THEN processing_files \cup {f} ELSE processing_files
     /\ routed' = IF route THEN [routed EXCEPT ![f] = @ + 1] ELSE routed
     /\ hfTasks' = [hfTasks EXCEPT ![i].st = IF route THEN "routing" ELSE "done"]
     /\ UNCHANGED fsEvents
     /\ UNCHANGED <<now, cbFields, cbClients, rlFields, rlClients, orFields, orClients,
                    rtVars, dbVars, bpVars>>

\* _route_to_processor returns or raises: the finally clause discards the
\* path from processing_files.
RouteEnds(i) ==
  /\ hfTasks[i].st = "routing"
  /\ processing_files' = processing_files \ {hfTasks[i].file}
  /\ hfTasks' = [hfTasks EXCEPT ![i].st = "done"]
  /\ UNCHANGED <<pending_files, routed, fsEvents>>
  /\ UNCHANGED <<now, cbFields, cbClients, rlFields, rlClients, orFields, orClients,
                 rtVars, dbVars, bpVars>>

NextHot ==
  \/ \E f \in Files : OnCreated(f)
  \/ \E f \in Files : OnModified(f)
  \/ \E i \in DOMAIN hfTasks : ProcessAfterDebounce(i)
  \/ \E i \in DOMAIN hfTasks : RouteEnds(i)
  \/ Tick

\* ------------------------------------------------------------ construction
InitCB ==
  /\ now = 1
  /\ state = "closed"
  /\ failure_count = 0
  /\ last_failure_time = None
  /\ cpc = [c \in Callers |-> "idle"]
  /\ cout = [c \in Callers |-> "none"]
  /\ fnStarts = 0
  /\ fnFails = 0
  /\ fnOks = 0
  /\ probes = {}
  /\ healthy = FALSE

\* RateLimiter.__init__
InitRL ==
  /\ allowance = Rate * Token
  /\ last_check = now
  /\ lock = 0
  /\ waiters = <<>>
  /\ apc = [a \in Callers |-> "idle"]
  /\ awake = [a \in Callers |-> 0]
  /\ acqStarts = 0
  /\ acquired = 0

\* OptimizedOrchestrator.__init__ with empty cache tables.
InitOr ==
  /\ loop = 0
  /\ pc = [p \in Callers |-> "idle"]
  /\ task = [p \in Callers |-> 0]
  /\ result = [p \in Callers |-> [kind |-> "none", value |-> NoRow]]
  /\ cache = [f \in Prompts |-> [value |-> NoRow, expires_at |-> 0, hit_count |-> 0]]
  /\ agentCache = [f \in Prompts |-> NoRow]
  /\ monitor = [cache_hits |-> 0, cache_misses |-> 0, requests_ok |-> 0, requests_failed |-> 0]
  /\ cacheMonitor = [cache_hits |-> 0, cache_misses |-> 0]
  /\ stats = [total_tasks |-> 0, sonnet_calls |-> 0, cache_hits |-> 0]
  /\ recentCalls = <<>>
  /\ extCalls = [f \in Prompts |-> 0]
  /\ extOk = [f \in Prompts |-> 0]
  /\ execs = 0
  /\ consecFail = 0
  /\ dbUp = TRUE
  /\ orAttempt = [p \in Callers |-> 0]
  /\ orAwake = [p \in Callers |-> 0]

\* No execute_with_retry call has been made.
InitRetry ==
  /\ rpc = [c \in Callers |-> "idle"]
  /\ attempt = [c \in Callers |-> 0]
  /\ rawake = [c \in Callers |-> 0]
  /\ last_exception = [c \in Callers |-> None]
  /\ rcalls = [c \in Callers |-> 0]
  /\ rok = [c \in Callers |-> 0]
  /\ rdelays = [c \in Callers |-> <<>>]
  /\ fnErr = [c \in Callers |-> None]
  /\ rout = [c \in Callers |-> [kind |-> "none", err |-> None]]
  /\ retryRuns = 0

\* Debouncer.__init__
InitDeb ==
  /\ pending_tasks = [k \in Keys |-> 0]
  /\ timers = <<>>

\* BatchProcessor.__init__
InitBatch ==
  /\ queue = <<>>
  /\ processing = FALSE
  /\ collectors = <<>>
  /\ addedAt = <<>>
  /\ flushes = <<>>

\* DebouncedFileHandler.__init__
InitHot ==
  /\ pending_files = [f \in Files |-> None]
  /\ processing_files = {}
  /\ hfTasks = <<>>
  /\ routed = [f \in Files |-> 0]
  /\ fsEvents = 0

Init == InitCB /\ InitRL /\ InitOr /\ InitRetry /\ InitDeb /\ InitBatch /\ InitHot

NextCB ==
  \/ \E c \in Callers : CBCall(c)
  \/ \E c \in Callers : CBFnReturn(c)
  \/ \E c \in Callers : CBFnRaise(c)
  \/ CBPoll
  \/ Tick

SpecCB == Init /\ [][NextCB]_vars

\* The breaker with a service that recovers for good. Time passes, a call
\* arrives whenever one can make a difference, and every fn in flight
\* completes.
NextCBLive ==
  \/ \E c \in Callers : CBCall(c)
  \/ \E c \in Callers : CBFnReturn(c)
  \/ \E c \in Callers : LiveFnRaise(c)
  \/ ServiceRecovers
  \/ CBPoll
  \/ Tick
SpecCBLive ==
  /\ Init
  /\ [][NextCBLive]_vars
  /\ WF_vars(Tick)
  /\ WF_vars(\E c \in Callers : CBCall(c))
  /\ WF_vars(\E c \in Callers : CBFnReturn(c))
SpecRL == Init /\ [][NextRL]_vars
Spec == Init /\ [][Next]_vars
SpecSeq == Init /\ [][NextSeq]_vars
SpecDeg == Init /\ [][NextDeg]_vars
SpecObs == Init /\ [][NextObs]_vars
SpecRetry == Init /\ [][NextRetry]_vars
SpecDeb == Init /\ [][NextDeb]_vars
SpecGather == Init /\ [][NextGather]_vars
SpecBatch == Init /\ [][NextBatch]_vars
\* The clock advances, and the event loop runs every task whose sleep has
\* ended and completes every routing it has started.
SpecHot ==
  /\ Init
  /\ [][NextHot]_vars
  /\ WF_vars(Tick)
  /\ WF_vars(\E i \in DOMAIN hfTasks : ProcessAfterDebounce(i))
  /\ WF_vars(\E i \in DOMAIN hfTasks : RouteEnds(i))

\* ------------------------------------------------------------------ claims

\* C1: at any instant at most one external API request per fingerprint
\* (task.prompt) is in flight, however many route_task_optimized calls for
\* it were started concurrently.
C1_OneInFlight ==
  \A f \in Prompts :
    Cardinality({p \in Callers : pc[p] = "in_call" /\ task[p] = f}) <= 1
\* Two calls for the same prompt have both missed the cache; the request of
\* one is in flight while the other is suspended in the rate limiter.
C1_Witness ==
  \E p, q \in Callers :
    /\ p # q
    /\ pc[p] = "in_call"
    /\ pc[q] = "acquire"
    /\ task[p] = task[q]
    /\ CacheGet(task[p]) = NoRow

\* C2: every change of the breaker state is Closed->Open with the failure
\* count at or above the threshold, Open->HalfOpen with recovery_timeout
\* elapsed since the last failure, HalfOpen->Closed on a success of fn, or
\* HalfOpen->Open on a failure of fn; no other change ever occurs.
C2_LegalStep ==
  state' # state =>
    \/ state = "closed" /\ state' = "open"
         /\ failure_count' >= failure_threshold
    \/ state = "open" /\ state' = "half-open"
         /\ last_failure_time # None
         /\ now - last_failure_time > recovery_timeout
    \/ state = "half-open" /\ state' = "closed" /\ fnOks' = fnOks + 1
    \/ state = "half-open" /\ state' = "open" /\ fnFails' = fnFails + 1
C2_Transitions == [][C2_LegalStep]_vars
\* The breaker has gone round the whole cycle and is Closed again.
C2_Witness ==
  state = "closed" /\ fnFails >= failure_threshold /\ failure_count = 0

\* C3: a call made while the state is Open and less than recovery_timeout
\* has passed since the last failure ends at once with the circuit-open
\* error and does not invoke fn.
C3_FailFast ==
  [][\A c \in Callers :
       (CBCall(c) /\ state = "open"
          /\ now - last_failure_time < recovery_timeout)
       => (cout'[c] = "circuit_open" /\ cpc'[c] = "idle"
             /\ fnStarts' = fnStarts)]_vars
\* A caller was refused while the breaker was Open inside the timeout.
C3_Witness ==
  \E c \in Callers :
    /\ cout[c] = "circuit_open"
    /\ state = "open"
    /\ now - last_failure_time < recovery_timeout

\* C4: from a fresh Closed breaker, the k-th failure of fn with no success
\* before it leaves failure_count = k, is re-raised to its caller, and
\* leaves the state Open exactly when k >= failure_threshold.
C4_FailureStep ==
  (fnOks = 0 /\ fnFails' = fnFails + 1) =>
    /\ failure_count' = fnFails'
    /\ (state' = "open") <=> (fnFails' >= failure_threshold)
    /\ \E c \in Callers :
         cpc[c] = "in_fn" /\ cpc'[c] = "idle" /\ cout'[c] = "fn_error"
C4_CountsFailures == [][C4_FailureStep]_vars
\* The fifth failure in a row has just opened the breaker.
C4_Witness ==
  /\ fnOks = 0
  /\ fnFails = failure_threshold
  /\ failure_count = failure_threshold
  /\ state = "open"

\* C5: while the breaker is HalfOpen at most one invocation of fn admitted
\* in the HalfOpen state (the probe) is in flight.
C5_SingleProbe == state = "half-open" => Cardinality(probes) <= 1


\* C6: once failure_threshold route_task_optimized calls in a row have had
\* their external request fail, the breaker is Open (so that the next call
\* fails fast without an external request).
C6_OpensAfterFailures == consecFail >= failure_threshold => state = "open"

\* C7: the token count stays within 0..rate in every state, also while a
\* caller sleeps inside acquire.
C7_TokenBound == 0 <= allowance /\ allowance <= Rate * Token
\* A caller sleeps inside acquire on a fractional token count, and the
\* bucket has been emptied and partly refilled.
C7_Witness ==
  \E a \in Callers :
    apc[a] = "sleeping" /\ 0 < allowance /\ allowance < Token

\* C9: the acquire calls completed by time t never exceed the initial
\* capacity plus the tokens refilled since construction (in the unit of
\* allowance: Rate units per tick).
C9_Conservation == acquired * Token <= Rate * Token + (now - 1) * Rate

\* C8: in the window of the last Per ticks (and so in any window of Per
\* ticks) at most Rate external requests were issued through
\* route_task_optimized.
C8_RateBound == Len(recentCalls) <= Rate

\* C10: a route_task_optimized call for a prompt whose result is stored and
\* not yet expired records a cache hit, returns the stored value and ends
\* there, so that no second external request is issued within the TTL.
C10_Step ==
  \A f \in Prompts :
    (OrSubmit(1, f) /\ CacheGet(f) # NoRow) =>
      /\ result'[1] = [kind |-> "cached", value |-> CacheGet(f)]
      /\ monitor'.cache_hits = monitor.cache_hits + 1
      /\ pc'[1] = "idle"
C10_CacheIdempotence == [][C10_Step]_vars

\* C11: an execute issued after the stored entry of its prompt has expired
\* (now > expires_at) never completes with a stored value: it does not go
\* from the breaker to a successful return without an external request.
C11_Step ==
  \A p \in Callers :
    (/\ pc[p] = "breaker"
     /\ cache[task[p]].value # NoRow
     /\ now > cache[task[p]].expires_at)
    => ~(pc'[p] = "idle" /\ result'[p].kind = "ok"
           /\ extCalls' = extCalls)
C11_ExpiryAtRead == [][C11_Step]_vars

\* C12: the result cache holds a row for a prompt only if some external
\* request for it was answered, and a route_task_optimized call that ends in
\* failure (it raises, or returns an unsuccessful result) leaves the rows of
\* both caches as they were.
C12_OnlyAnswered == \A f \in Prompts : cache[f].value # NoRow => extOk[f] >= 1
C12_FailureStep ==
  \A p \in Callers :
    (pc[p] # "idle" /\ pc'[p] = "idle"
       /\ result'[p].kind \in {"failed", "circuit_open"})
    => (cache' = cache /\ agentCache' = agentCache)
C12_FailuresNotCached == []C12_OnlyAnswered /\ [][C12_FailureStep]_vars
\* A call has ended in failure after its external request failed, and the
\* prompt has no row.
C12_Witness ==
  \E p \in Callers, f \in Prompts :
    /\ pc[p] = "idle" /\ result[p].kind = "failed"
    /\ extCalls[f] >= 1 /\ extOk[f] = 0
    /\ cache[f].value = NoRow

\* C13: when the cache database is unusable, a route_task_optimized call
\* never ends with the cache's error; a call made then goes on to the rate
\* limiter as on a miss, and a call whose external request is answered then
\* returns the answer.
C13_NoCacheError == \A p \in Callers : result[p].kind # "cache_error"
C13_Step ==
  ~dbUp =>
    /\ \A f \in Prompts : OrSubmit(1, f) => pc'[1] = "acquire"
    /\ \A v \in Texts : OrCallReturn(1, v) => result'[1] = [kind |-> "ok", value |-> v]
C13_CacheDegradation == []C13_NoCacheError /\ [][C13_Step]_vars

\* C14: execute_with_retry returns at once when func succeeds, without
\* another invocation; when func fails on every attempt it is invoked
\* exactly max_retries times, the delay slept after failed attempt k
\* (0-indexed) is base_delay * 2^k for k < max_retries - 1 with none after
\* the last, and the error raised to the caller is the one func raised last.
C14_RetrySchedule ==
  \A c \in Callers :
    /\ rcalls[c] <= max_retries
    /\ rok[c] >= 1 => (rpc[c] = "idle" /\ rout[c].kind = "ok" /\ rok[c] = 1)
    /\ rout[c].kind = "ok" => rok[c] = 1
    /\ rout[c].kind = "raised" =>
         /\ rok[c] = 0
         /\ rcalls[c] = max_retries
         /\ rdelays[c] = [k \in 1..(max_retries - 1) |-> base_delay * Pow2(k - 1)]
         /\ rout[c].err = fnErr[c]
\* One call has failed on every attempt, another has succeeded on a retry.
C14_Witness ==
  \E c, d \in Callers :
    /\ rout[c].kind = "raised" /\ rcalls[c] = max_retries
    /\ rout[d].kind = "ok" /\ rcalls[d] >= 2

\* The tasks created for key k, and whether all debounce calls for k so far
\* came at intervals shorter than delay.
TimersOf(k) == {i \in DOMAIN timers : timers[i].key = k}
Rapid(k) ==
  \A i, j \in TimersOf(k) :
    (i < j /\ ~\E m \in TimersOf(k) : i < m /\ m < j)
    => timers[j].at - timers[i].at < delay
Executed(i) == timers[i].st \in {"running", "done", "failed", "aborted"}

\* C15: of the debounce calls made for one key at intervals shorter than
\* delay, only the last one's task ever invokes its func (so at most one
\* execution, that of the last call), and the last one's task is never
\* cancelled.
C15_Coalescing ==
  \A k \in Keys :
    Rapid(k) =>
      \A i \in TimersOf(k) :
        /\ Executed(i) => \A j \in TimersOf(k) : j <= i
        /\ (\A j \in TimersOf(k) : j <= i) => timers[i].st # "cancelled"
\* Three calls for one key at intervals shorter than delay; an earlier
\* one's task was cancelled and a later one's func has run and returned.
C15_Witness ==
  \E k \in Keys :
    /\ Rapid(k)
    /\ Cardinality(TimersOf(k)) >= 3
    /\ \E i, j \in TimersOf(k) :
         /\ i < j
         /\ timers[j].st = "done"
         /\ timers[i].st = "cancelled"

\* C16: a key never has more than one task that is neither cancelled nor
\* fired.
C16_OnePending ==
  \A k \in Keys :
    Cardinality({i \in TimersOf(k) : timers[i].st = "sleeping"}) <= 1
\* A second call for a key has replaced the pending task of the first, and
\* a call made while func was running has aborted it.
C16_Witness ==
  \E i, j, m \in DOMAIN timers :
    /\ timers[i].key = timers[j].key /\ timers[j].key = timers[m].key
    /\ timers[i].st = "cancelled"
    /\ timers[j].st = "aborted"
    /\ timers[m].st = "sleeping"

\* C17: once the func of a fired task has finished, by returning or by
\* raising, its key has no entry in pending_tasks: every entry refers to a
\* task that has not finished.
C17_EntryRemoved ==
  \A k \in Keys :
    pending_tasks[k] # 0 =>
      timers[pending_tasks[k]].st \in {"sleeping", "running"}

\* Items handed to gather so far, and items added but not yet handed over.
Flushed == UNION {{f.items[n] : n \in DOMAIN f.items} : f \in {flushes[m] : m \in DOMAIN flushes}}
Waiting == (DOMAIN addedAt) \ Flushed

\* C18: the batch is flushed as soon as batch_size items have been added
\* (time does not pass while batch_size items wait), a collecting window is
\* flushed when batch_timeout has passed since it opened (it is never
\* collecting past its deadline), and no flushed batch holds more than
\* batch_size items.
C18_SizeStep == now' # now => Cardinality(Waiting) < batch_size
C18_Bounded ==
  /\ \A m \in DOMAIN flushes : Len(flushes[m].items) <= batch_size
  /\ \A c \in DOMAIN collectors :
       collectors[c].st = "collecting" =>
         now <= collectors[c].start_time + batch_timeout
C18_FlushTriggers == []C18_Bounded /\ [][C18_SizeStep]_vars

\* C19: every item added is handed over within batch_timeout of being
\* added: no item is still waiting later than that.
C19_NoItemWaits ==
  \A n \in Waiting : now - addedAt[n] <= batch_timeout

\* C20: every process_batch task hands over its batch at most once, and
\* exactly once when it has finished with a non-empty batch; no item is in
\* two batches, twice in one, or both handed over and still queued.
C20_ExactlyOnce ==
  /\ \A c \in DOMAIN collectors :
       LET n == Cardinality({m \in DOMAIN flushes : flushes[m].by = c}) IN
         /\ n <= 1
         /\ (collectors[c].st = "done" /\ collectors[c].batch # <<>>) => n = 1
  /\ \A i \in DOMAIN addedAt :
       Cardinality({<<m, n>> \in (DOMAIN flushes) \X (1..batch_size) :
                      n \in DOMAIN flushes[m].items /\ flushes[m].items[n] = i}) <= 1
  /\ \A i \in Flushed : \A n \in DOMAIN queue : queue[n] # i
\* Two process_batch tasks that collected at the same time have each handed
\* over a batch.
C20_Witness ==
  \E c, e \in DOMAIN collectors :
    /\ c # e
    /\ collectors[c].st = "done" /\ collectors[e].st = "done"
    /\ collectors[c].batch # <<>> /\ collectors[e].batch # <<>>
    /\ collectors[c].start_time = collectors[e].start_time

\* C22: a CircuitBreaker.call made while the breaker is open and
\* now - last_failure_time >= recovery_timeout (the two being equal
\* included) sets the state to half-open and invokes fn.
C22_Step ==
  \A c \in Callers :
    (/\ CBCall(c)
     /\ state = "open"
     /\ last_failure_time # None
     /\ now - last_failure_time >= recovery_timeout)
    => (state' = "half-open" /\ cpc'[c] = "in_fn")
C22_TimeoutBoundary == [][C22_Step]_vars

\* C23: when an invocation of fn completes while the state is half-open, a
\* return sets the state to closed and failure_count to 0, and a raise sets
\* the state to open, whatever the failure count and whatever other calls
\* are in flight.
C23_Step ==
  \A c \in Callers :
    /\ (CBFnReturn(c) /\ state = "half-open")
         => (state' = "closed" /\ failure_count' = 0)
    /\ (CBFnRaise(c) /\ state = "half-open") => state' = "open"
C23_HalfOpenOutcomes == [][C23_Step]_vars
\* Two calls were admitted while half-open; the fn of one has raised and the
\* breaker is open again, with the other still in flight.
C23_Witness ==
  state = "open" /\ probes # {} /\ failure_count > failure_threshold

\* C26: while the state is closed, a call whose fn returns resets
\* failure_count to 0, so that failures separated by successes never add up
\* to the threshold.
C26_Step ==
  \A c \in Callers :
    (CBFnReturn(c) /\ state = "closed") => failure_count' = 0
C26_ConsecutiveFailures == [][C26_Step]_vars

\* C28: a health_check poll changes neither the breaker's state or failure
\* count, nor the rate limiter's allowance, nor the pending debounce
\* entries, nor the batch queue; polled while the breaker is open, it leaves
\* it open.
C28_Step ==
  HealthCheck =>
    /\ state' = state
    /\ failure_count' = failure_count
    /\ allowance' = allowance
    /\ pending_tasks' = pending_tasks
    /\ queue' = queue
C28_ReadOnly == [][C28_Step]_vars

\* C29: if the breaker is open, the service has recovered for good, and the
\* run has room for a time later than last_failure_time + recovery_timeout
\* and for one more invocation of fn, then the breaker eventually is closed
\* with failure_count 0.
C29_CanProbe ==
  /\ last_failure_time + recovery_timeout < 1 + MaxTime
  /\ fnStarts < MaxCalls
C29_Recovery ==
  (state = "open" /\ healthy /\ C29_CanProbe)
    ~> (state = "closed" /\ failure_count = 0)
\* The breaker opened, the service recovered, and a probe closed the
\* breaker.
C29_Witness ==
  /\ healthy
  /\ state = "closed" /\ failure_count = 0
  /\ fnFails >= failure_threshold
  /\ now > 1 + recovery_timeout

\* What C24 asks of a route_task_optimized call served from the cache: it
\* ends at once with the stored value, and the rate limiter, the breaker and
\* the count of external requests are as they were.
C24_Served(p, f) ==
  /\ pc'[p] = "idle"
  /\ result'[p] = [kind |-> "cached", value |-> CacheGet(f)]
  /\ UNCHANGED <<rlFields, rlClients, cbFields, cbClients, extCalls, recentCalls>>

RECURSIVE Issued(_)
Issued(S) ==
  IF S = {} THEN 0
  ELSE LET f == CHOOSE x \in S : TRUE IN extCalls[f] + Issued(S \ {f})

\* C27: the external requests issued never outnumber the RateLimiter.acquire
\* calls that have completed, whatever calls fail, are retried or are
\* served from a cache.
C27_TokenPerCall == Issued(Prompts) <= acquired
\* A call that went through two attempts of execute_with_retry has issued
\* its external request, and an earlier request had failed.
C27_Witness ==
  /\ pc[1] = "in_call"
  /\ orAttempt[1] >= 1 /\ orAwake[1] = now
  /\ Issued(Prompts) = acquired
  /\ consecFail >= 1

\* C25: at most one process_batch task at a time has been created and has
\* not yet closed its batch, whatever the order of add_task calls and of
\* the tasks' steps.
C25_OneWindow ==
  Cardinality({c \in DOMAIN collectors :
                 collectors[c].st \in {"created", "collecting"}}) <= 1

\* C21: when process_batch has returned from a flush, every item of the
\* batch has been processed, whether or not others raised, and the list
\* returned has one result per item, in the order of the items: at place n
\* what process_single returned or raised for the n-th item.
C21_PartialFailure ==
  \A m \in DOMAIN flushes :
    collectors[flushes[m].by].st = "done" =>
      LET f == flushes[m] IN
      /\ Len(f.finished) = Len(f.items)
      /\ Len(f.results) = Len(f.items)
      /\ \A n \in DOMAIN f.items :
           /\ f.results[n].item = f.items[n]
           /\ \E j \in DOMAIN f.finished : f.finished[j] = f.results[n]
\* A batch of two or more items has been processed: process_single raised
\* for the second item, and only after that returned for the first.
C21_Witness ==
  \E m \in DOMAIN flushes :
    LET f == flushes[m] IN
    /\ collectors[f.by].st = "done"
    /\ Len(f.items) >= 2
    /\ f.finished[1] = [item |-> f.items[2], ok |-> FALSE]
    /\ f.finished[2] = [item |-> f.items[1], ok |-> TRUE]

\* C30: once file-system events stop, every file that on_created put in
\* pending_files is eventually taken out of it and routed, also when
\* on_modified arrived during its debounce window: no file stays in
\* pending_files forever.
C30_EventuallyRouted ==
  \A f \in Files : (pending_files[f] # None) ~> (pending_files[f] = None)

\* C30, second part: no file is inside _route_to_processor in two tasks at
\* once.
C30_OnePipeline ==
  \A f \in Files :
    Cardinality({i \in DOMAIN hfTasks : hfTasks[i].file = f /\ hfTasks[i].st = "routing"}) <= 1

\* C30: a file created and left alone is routed.
C30_Witness == \E f \in Files : routed[f] > 0 /\ pending_files[f] = None
====
